---- MODULE Spec2Model ----
(***************************************************************************)
(* Model of the memory server of src/src/index.ts: one JSON document on    *)
(* disk (memories.json) and the four tools reflect, recall, modify and     *)
(* erase, each of which loads the whole document, works on it in memory    *)
(* and (for the mutating tools) writes the whole document back.            *)
(*                                                                         *)
(* JavaScript values are tagged records, so that typeof, truthiness and    *)
(* the difference between "absent" (undefined) and "empty" are computed    *)
(* the way the code computes them.  A JavaScript string is a sequence of   *)
(* one-character strings.  A timestamp is the number of milliseconds that  *)
(* new Date(iso).getTime() yields for the ISO string toISOString() made.   *)
(***************************************************************************)
EXTENDS Integers, Sequences, FiniteSets, TLC

VARIABLES file,      \* the backing file memories.json
          now,       \* the wall clock read by new Date(), in milliseconds
          uuids,     \* how many ids uuidv4() has handed out
          given,     \* every id a record was ever created with
          req,       \* the tool call (request.params) whose response is on
                     \* its way to the client
          resp,      \* that response
          calls      \* the calls in flight, by connection slot

vars == <<file, now, uuids, given, req, resp, calls>>

----------------------------------------------------------------------------
(* Bounds of the model. *)

MaxMem == 2        \* reflect is not offered once the collection holds this many
MaxUuid == 3       \* ids handed out over a run
MaxClock == 1      \* the clock stops advancing here
MaxFlight == 2     \* calls that can be in flight at once

----------------------------------------------------------------------------
(* JavaScript values. *)

U == [t |-> "undefined"]
Null == [t |-> "null"]
S(x) == [t |-> "string", s |-> x]
N(x) == [t |-> "number", n |-> x]
B(x) == [t |-> "boolean", b |-> x]
A(x) == [t |-> "array", a |-> x]
Obj(x) == [t |-> "object", o |-> x]

\* typeof x === 'string', 'number', 'boolean'; Array.isArray(x)
IsString(x) == x.t = "string"
IsNumber(x) == x.t = "number"
IsBoolean(x) == x.t = "boolean"
IsArray(x) == x.t = "array"
\* typeof args === 'object' && args !== null
IsObject(x) == x.t = "object"

\* ToBoolean, as used by if (x), !x and x || y
Truthy(x) ==
  CASE x.t = "undefined" -> FALSE
    [] x.t = "null" -> FALSE
    [] x.t = "string" -> x.s # <<>>
    [] x.t = "number" -> x.n # 0
    [] x.t = "boolean" -> x.b
    [] OTHER -> TRUE

\* x || y
OrElse(x, y) == IF Truthy(x) THEN x ELSE y

\* The strings of the two enumerations.
Low == <<"l", "o", "w">>
Medium == <<"m", "e", "d">>
High == <<"h", "i">>
Conversation == <<"c", "o", "n">>
Decision == <<"d", "e", "c">>
Preference == <<"p", "r", "e">>
Fact == <<"f", "a", "c">>
Other == <<"o", "t", "h">>

Importances == {Low, Medium, High}
Types == {Conversation, Decision, Preference, Fact, Other}

\* String.prototype.toLowerCase over the alphabet of the model
LowerChar(c) ==
  CASE c = "A" -> "a"
    [] c = "B" -> "b"
    [] c = "X" -> "x"
    [] OTHER -> c

toLowerCase(s) == [i \in 1..Len(s) |-> LowerChar(s[i])]

\* String.prototype.includes: t occurs in s as a contiguous substring
includes(s, t) ==
  \E i \in 0..(Len(s) - Len(t)) : SubSeq(s, i + 1, i + Len(t)) = t

\* Array.prototype.includes / some over an array of strings
arrayIncludes(arr, x) == \E i \in 1..Len(arr) : arr[i] = x

----------------------------------------------------------------------------
(* The argument validators. *)

\* the arguments object with no property set
NoArgs ==
  [id |-> U, content |-> U, tags |-> U, context |-> U, session_id |-> U,
   importance |-> U, type |-> U, query |-> U, limit |-> U, confirm |-> U]

isEnum(x, values) == x = U \/ (IsString(x) /\ x.s \in values)

isValidReflectArgs(args) ==
  /\ IsObject(args)
  /\ IsString(args.o.content)
  /\ (args.o.tags = U \/ IsArray(args.o.tags))
  /\ (args.o.context = U \/ IsString(args.o.context))
  /\ (args.o.session_id = U \/ IsString(args.o.session_id))
  /\ isEnum(args.o.importance, Importances)
  /\ isEnum(args.o.type, Types)

isValidRecallArgs(args) ==
  /\ IsObject(args)
  /\ (args.o.query = U \/ IsString(args.o.query))
  /\ (args.o.tags = U \/ IsArray(args.o.tags))
  /\ (args.o.session_id = U \/ IsString(args.o.session_id))
  /\ isEnum(args.o.importance, Importances)
  /\ isEnum(args.o.type, Types)
  /\ (args.o.limit = U \/ IsNumber(args.o.limit))

isValidModifyArgs(args) ==
  /\ IsObject(args)
  /\ IsString(args.o.id)
  /\ (args.o.content = U \/ IsString(args.o.content))
  /\ (args.o.tags = U \/ IsArray(args.o.tags))
  /\ (args.o.context = U \/ IsString(args.o.context))
  /\ isEnum(args.o.importance, Importances)
  /\ isEnum(args.o.type, Types)

isValidEraseArgs(args) ==
  /\ IsObject(args)
  /\ (args.o.id = U \/ IsString(args.o.id))
  /\ (args.o.query = U \/ IsString(args.o.query))
  /\ (args.o.tags = U \/ IsArray(args.o.tags))
  /\ (args.o.session_id = U \/ IsString(args.o.session_id))
  /\ (args.o.confirm = U \/ IsBoolean(args.o.confirm))

----------------------------------------------------------------------------
(* The backing file.  A Memory in memory is the record                     *)
(*   [id, content, tags, context, timestamp, session_id, importance, type] *)
(* whose session_id is U or S(..); the other fields are plain values.      *)

Version == "1.0.0"

\* no file yet / a file that JSON.parse rejects / a written document
Missing == [state |-> "missing"]
Corrupt == [state |-> "corrupt"]
Written(text) == [state |-> "json", text |-> text]

\* JSON.stringify of one Memory: a property whose value is undefined is left out
stringifyMemory(m) ==
  LET common == [id |-> m.id, content |-> m.content, tags |-> m.tags,
                 context |-> m.context, timestamp |-> m.timestamp,
                 importance |-> m.importance, type |-> m.type]
  IN IF m.session_id = U THEN common
     ELSE [k \in DOMAIN common \cup {"session_id"} |->
             IF k = "session_id" THEN m.session_id.s ELSE common[k]]

JSONstringify(storage) ==
  [memories |-> [i \in 1..Len(storage.memories) |->
                   stringifyMemory(storage.memories[i])],
   version |-> storage.version,
   last_updated |-> storage.last_updated]

\* JSON.parse of one Memory: reading a property that is not there gives undefined
parseMemory(j) ==
  [id |-> j.id, content |-> j.content, tags |-> j.tags, context |-> j.context,
   timestamp |-> j.timestamp,
   session_id |-> IF "session_id" \in DOMAIN j THEN S(j.session_id) ELSE U,
   importance |-> j.importance, type |-> j.type]

JSONparse(text) ==
  [memories |-> [i \in 1..Len(text.memories) |-> parseMemory(text.memories[i])],
   version |-> text.version,
   last_updated |-> text.last_updated]

\* loadMemories that makes up a blank record when the read or the parse throws
loadMemoriesBlankRecord(f, clock) ==
  IF f.state = "json" THEN JSONparse(f.text)
  ELSE [memories |-> << [id |-> <<>>, content |-> <<>>, tags |-> <<>>,
                         context |-> <<>>, timestamp |-> clock, session_id |-> U,
                         importance |-> Medium, type |-> Other] >>,
        version |-> Version, last_updated |-> clock]

\* loadMemories: the parsed document, or an empty storage when the read or
\* the parse throws
loadMemories(f, clock) ==
  IF f.state = "json" THEN JSONparse(f.text)
  ELSE [memories |-> <<>>, version |-> Version, last_updated |-> clock]

\* saveMemories: stamps last_updated and writes the whole document
saveMemories(storage, clock) ==
  Written(JSONstringify([storage EXCEPT !.last_updated = clock]))

----------------------------------------------------------------------------
(* Searching and filtering. *)

matchesQuery(memory, searchTerm) ==
  \/ includes(toLowerCase(memory.content), searchTerm)
  \/ includes(toLowerCase(memory.context), searchTerm)
  \/ \E i \in 1..Len(memory.tags) :
       includes(toLowerCase(memory.tags[i]), searchTerm)

searchMemories(memories, query) ==
  IF ~Truthy(query) THEN memories
  ELSE LET searchTerm == toLowerCase(query.s)
           Keep(memory) == matchesQuery(memory, searchTerm)
       IN SelectSeq(memories, Keep)

\* filters = [tags, session_id, importance, type], each possibly U
passesFilters(memory, filters) ==
  /\ ~(Truthy(filters.tags) /\
       ~\E i \in 1..Len(filters.tags.a) :
           arrayIncludes(memory.tags, filters.tags.a[i]))
  /\ ~(Truthy(filters.session_id) /\ memory.session_id # filters.session_id)
  /\ ~(Truthy(filters.importance) /\ memory.importance # filters.importance.s)
  /\ ~(Truthy(filters.type) /\ memory.type # filters.type.s)

filterMemories(memories, filters) ==
  LET Keep(memory) == passesFilters(memory, filters)
  IN SelectSeq(memories, Keep)

\* findIndex that yields the last index where the code yields -1
findIndexOrLast(memories, id) ==
  IF \E i \in 1..Len(memories) : memories[i].id = id
  THEN CHOOSE i \in 1..Len(memories) :
         /\ memories[i].id = id
         /\ \A j \in 1..(i - 1) : memories[j].id # id
  ELSE Len(memories)

\* Array.prototype.findIndex on the id: the first index whose record has the
\* id, 0 standing for -1
findIndex(memories, id) ==
  IF \E i \in 1..Len(memories) : memories[i].id = id
  THEN CHOOSE i \in 1..Len(memories) :
         /\ memories[i].id = id
         /\ \A j \in 1..(i - 1) : memories[j].id # id
  ELSE 0

\* the sort with ties in reverse: x goes in front of its equals
insertByTimeBeforeEquals(sorted, x) ==
  LET k == Cardinality({i \in 1..Len(sorted) :
                          sorted[i].timestamp > x.timestamp})
  IN SubSeq(sorted, 1, k) \o <<x>> \o SubSeq(sorted, k + 1, Len(sorted))

\* One step of the stable sort: x goes behind every element that does not
\* compare after it (b.time - a.time <= 0)
insertByTime(sorted, x) ==
  LET k == Cardinality({i \in 1..Len(sorted) :
                          sorted[i].timestamp >= x.timestamp})
  IN SubSeq(sorted, 1, k) \o <<x>> \o SubSeq(sorted, k + 1, Len(sorted))

\* memories.sort((a, b) => time(b) - time(a)): most recent first, stable
RECURSIVE sortByTimestamp(_)
sortByTimestamp(memories) ==
  IF memories = <<>> THEN <<>>
  ELSE insertByTime(sortByTimestamp(SubSeq(memories, 1, Len(memories) - 1)),
                    memories[Len(memories)])

\* Array.prototype.slice(0, end) for an integer end
slice(arr, end) ==
  LET len == Len(arr)
      k == IF end < 0 THEN (IF len + end < 0 THEN 0 ELSE len + end)
           ELSE (IF end > len THEN len ELSE end)
  IN SubSeq(arr, 1, k)

----------------------------------------------------------------------------
(* The tool handlers.  Each yields what the call does once its read of the *)
(* file has completed: whether it saves, the storage it saves and the      *)
(* response it gives.                                                      *)

DefaultLimit == 10

McpError(code, message) == [kind |-> "McpError", code |-> code, message |-> message]

Throw(error) == [save |-> FALSE, storage |-> Null, response |-> error]
Return(response) == [save |-> FALSE, storage |-> Null, response |-> response]
SaveAndReturn(storage, response) ==
  [save |-> TRUE, storage |-> storage, response |-> response]

\* uuidv4(): the n-th id handed out; no two calls give the same id
Digits == <<"1", "2", "3", "4", "5", "6", "7", "8", "9">>
uuidv4(n) == <<"u", Digits[n]>>

\* the object literal with session_id defaulted like context
memoryWithIdSessionDefault(id, args, clock) ==
  [id |-> id,
   content |-> args.o.content.s,
   tags |-> OrElse(args.o.tags, A(<<>>)).a,
   context |-> OrElse(args.o.context, S(<<>>)).s,
   timestamp |-> clock,
   session_id |-> OrElse(args.o.session_id, S(<<>>)),
   importance |-> OrElse(args.o.importance, S(Medium)).s,
   type |-> OrElse(args.o.type, S(Other)).s]

\* the object literal of handleReflect, for a given id
memoryWithId(id, args, clock) ==
  [id |-> id,
   content |-> args.o.content.s,
   tags |-> OrElse(args.o.tags, A(<<>>)).a,
   context |-> OrElse(args.o.context, S(<<>>)).s,
   timestamp |-> clock,
   session_id |-> args.o.session_id,
   importance |-> OrElse(args.o.importance, S(Medium)).s,
   type |-> OrElse(args.o.type, S(Other)).s]

\* the id taken from the creation time instead of uuidv4()
newMemoryIdFromClock(args, clock, n) == memoryWithId(uuidv4(clock + 1), args, clock)

newMemory(args, clock, n) == memoryWithId(uuidv4(n), args, clock)

handleReflect(args, f, clock, n) ==
  IF ~isValidReflectArgs(args)
  THEN Throw(McpError("InvalidParams", "Invalid reflect arguments"))
  ELSE
    LET storage == loadMemories(f, clock)
        created == newMemory(args, clock, n)
    IN SaveAndReturn([storage EXCEPT !.memories = Append(@, created)],
                     [kind |-> "stored", memory |-> created])

\* handleRecall that writes back the collection it sorted
handleRecallSavingSorted(args, f, clock) ==
  IF ~isValidRecallArgs(args)
  THEN Throw(McpError("InvalidParams", "Invalid recall arguments"))
  ELSE
    LET storage == loadMemories(f, clock)
        sorted == sortByTimestamp(storage.memories)
        limit == OrElse(args.o.limit, N(DefaultLimit)).n
    IN SaveAndReturn([storage EXCEPT !.memories = sorted],
                     [kind |-> "recalled", memories |-> slice(sorted, limit)])

handleRecall(args, f, clock) ==
  IF ~isValidRecallArgs(args)
  THEN Throw(McpError("InvalidParams", "Invalid recall arguments"))
  ELSE
    LET storage == loadMemories(f, clock)
        searched == IF Truthy(args.o.query)
                    THEN searchMemories(storage.memories, args.o.query)
                    ELSE storage.memories
        filtered == filterMemories(searched,
                      [tags |-> args.o.tags, session_id |-> args.o.session_id,
                       importance |-> args.o.importance, type |-> args.o.type])
        sorted == sortByTimestamp(filtered)
        limit == OrElse(args.o.limit, N(DefaultLimit)).n
    IN Return([kind |-> "recalled", memories |-> slice(sorted, limit)])

\* the content guarded by `if (args.content)` instead of `!== undefined`
updateFieldsIfTruthy(memory, args) ==
  [memory EXCEPT
     !.content = IF Truthy(args.o.content) THEN args.o.content.s ELSE @,
     !.tags = IF args.o.tags # U THEN args.o.tags.a ELSE @,
     !.context = IF args.o.context # U THEN args.o.context.s ELSE @,
     !.importance = IF args.o.importance # U THEN args.o.importance.s ELSE @,
     !.type = IF args.o.type # U THEN args.o.type.s ELSE @]

\* "Update fields if provided"
updateFields(memory, args) ==
  [memory EXCEPT
     !.content = IF args.o.content # U THEN args.o.content.s ELSE @,
     !.tags = IF args.o.tags # U THEN args.o.tags.a ELSE @,
     !.context = IF args.o.context # U THEN args.o.context.s ELSE @,
     !.importance = IF args.o.importance # U THEN args.o.importance.s ELSE @,
     !.type = IF args.o.type # U THEN args.o.type.s ELSE @]

handleModify(args, f, clock) ==
  IF ~isValidModifyArgs(args)
  THEN Throw(McpError("InvalidParams", "Invalid modify arguments"))
  ELSE
    LET storage == loadMemories(f, clock)
        memoryIndex == findIndex(storage.memories, args.o.id.s)
    IN IF memoryIndex = 0
       THEN Throw(McpError("InvalidParams", "Memory with ID not found"))
       ELSE
         LET originalMemory == storage.memories[memoryIndex]
             memory == updateFields(originalMemory, args)
         IN SaveAndReturn(
              [storage EXCEPT !.memories[memoryIndex] = memory],
              [kind |-> "updated", original |-> originalMemory,
               updated |-> memory])

\* the preview without the session_id filter
previewMemoriesNoSession(storage, args) ==
  LET searched == IF Truthy(args.o.query)
                  THEN searchMemories(storage.memories, args.o.query)
                  ELSE storage.memories
  IN filterMemories(searched,
       [tags |-> args.o.tags, session_id |-> U, importance |-> U, type |-> U])

\* the preview branch's selection
previewMemories(storage, args) ==
  LET searched == IF Truthy(args.o.query)
                  THEN searchMemories(storage.memories, args.o.query)
                  ELSE storage.memories
  IN filterMemories(searched,
       [tags |-> args.o.tags, session_id |-> args.o.session_id,
        importance |-> U, type |-> U])

\* the deletion without the search on the query
memoriesToDeleteNoQuery(storage, args) ==
  filterMemories(storage.memories,
    [tags |-> args.o.tags, session_id |-> args.o.session_id,
     importance |-> U, type |-> U])

\* the deletion branch's selection
memoriesToDelete(storage, args) ==
  LET searched == IF Truthy(args.o.query)
                  THEN searchMemories(storage.memories, args.o.query)
                  ELSE storage.memories
  IN filterMemories(searched,
       [tags |-> args.o.tags, session_id |-> args.o.session_id,
        importance |-> U, type |-> U])

\* the filter on the id that, when it drops a record, drops the last one too
withoutIdAndLast(memories, id) ==
  LET OtherId(m) == m.id # id
      remaining == SelectSeq(memories, OtherId)
  IN IF Len(remaining) < Len(memories) /\ remaining # <<>>
     THEN SubSeq(remaining, 1, Len(remaining) - 1)
     ELSE remaining

\* storage.memories.filter(m => m.id !== args.id)
withoutId(memories, id) ==
  LET OtherId(m) == m.id # id
  IN SelectSeq(memories, OtherId)

\* the by-id branch taken only when the call does not also confirm
hasIdUnlessConfirmed(args) == Truthy(args.o.id) /\ ~Truthy(args.o.confirm)

\* if (args.id): the call erases by id
hasId(args) == Truthy(args.o.id)

handleErase(args, f, clock) ==
  IF ~isValidEraseArgs(args)
  THEN Throw(McpError("InvalidParams", "Invalid erase arguments"))
  ELSE
    LET storage == loadMemories(f, clock)
    IN IF hasId(args)
       THEN
         LET remaining == withoutId(storage.memories, args.o.id.s)
         IN IF Len(remaining) = Len(storage.memories)
            THEN Throw(McpError("InvalidParams", "Memory with ID not found"))
            ELSE SaveAndReturn([storage EXCEPT !.memories = remaining],
                               [kind |-> "deleted", id |-> args.o.id.s])
       ELSE IF ~Truthy(args.o.confirm)
       THEN
         LET memories == previewMemories(storage, args)
         IN Return([kind |-> "preview", count |-> Len(memories),
                    memories |-> memories])
       ELSE
         LET toDelete == memoriesToDelete(storage, args)
             deletedIds == [i \in 1..Len(toDelete) |-> toDelete[i].id]
             Kept(m) == ~arrayIncludes(deletedIds, m.id)
         IN SaveAndReturn(
              [storage EXCEPT !.memories = SelectSeq(@, Kept)],
              [kind |-> "bulk_deleted", count |-> Len(deletedIds)])

\* The CallToolRequestSchema handler: the switch on the tool name
CallTool(request, f, clock, n) ==
  CASE request.name = "reflect" -> handleReflect(request.arguments, f, clock, n)
    [] request.name = "recall" -> handleRecall(request.arguments, f, clock)
    [] request.name = "modify" -> handleModify(request.arguments, f, clock)
    [] request.name = "erase" -> handleErase(request.arguments, f, clock)
    [] OTHER -> Throw(McpError("MethodNotFound", "Unknown tool"))

----------------------------------------------------------------------------
(* The calls a client makes.  The strings are chosen so that a query can   *)
(* match in the content, in the context or in a tag, in either case, and   *)
(* so that empty strings and empty arrays occur where the code accepts     *)
(* them.                                                                   *)

Args(o) == Obj(o)

ReflectArgs ==
  { Args([NoArgs EXCEPT !.content = S(<<"A", "b">>)]),
    Args([NoArgs EXCEPT !.content = S(<<"b">>), !.tags = A(<< <<"X">>, <<"z">> >>),
                        !.context = S(<<"A">>), !.session_id = S(<<"s">>),
                        !.importance = S(High), !.type = S(Fact)]) }

BadReflectArgs ==
  { Args([NoArgs EXCEPT !.tags = A(<< <<"z">> >>)]) }

\* an id that uuidv4() never hands out
NoSuchId == <<"n", "o">>

ModifyPatches ==
  { NoArgs,
    [NoArgs EXCEPT !.content = S(<<>>)],
    [NoArgs EXCEPT !.tags = A(<<>>)],
    [NoArgs EXCEPT !.importance = S(Low)],
    [NoArgs EXCEPT !.type = S(Fact)],
    [NoArgs EXCEPT !.tags = A(<<>>), !.importance = S(Low)],
    [NoArgs EXCEPT !.context = S(<<"A">>), !.type = S(Fact)],
    [NoArgs EXCEPT !.content = S(<<"b">>), !.tags = A(<< <<"X">>, <<"z">> >>),
                   !.context = S(<<"A">>), !.importance = S(High),
                   !.type = S(Fact)] }

ModifyArgs ==
  { Args([p EXCEPT !.id = S(uuidv4(1))]) : p \in ModifyPatches }
  \cup
  { Args([NoArgs EXCEPT !.id = S(id), !.content = S(<<>>)]) :
      id \in {uuidv4(2), <<>>, NoSuchId} }
  \cup
  { Args([NoArgs EXCEPT !.id = S(NoSuchId), !.content = S(<<"b">>),
                        !.tags = A(<<>>), !.context = S(<<"A">>),
                        !.importance = S(Low), !.type = S(Fact)]) }

BadModifyArgs ==
  { Args([NoArgs EXCEPT !.content = S(<<"b">>)]),
    Args([NoArgs EXCEPT !.id = S(uuidv4(1)), !.importance = S(<<"x">>)]) }

RecallArgs ==
  { Args(NoArgs),
    Args([NoArgs EXCEPT !.query = S(<<>>)]),
    Args([NoArgs EXCEPT !.query = S(<<"a">>)]),
    Args([NoArgs EXCEPT !.query = S(<<"x">>)]),
    Args([NoArgs EXCEPT !.query = S(<<"B">>), !.importance = S(High)]),
    Args([NoArgs EXCEPT !.tags = A(<<>>)]),
    Args([NoArgs EXCEPT !.tags = A(<< <<"z">>, <<"q">> >>)]),
    Args([NoArgs EXCEPT !.tags = A(<< <<"x">> >>)]),
    Args([NoArgs EXCEPT !.session_id = S(<<>>)]),
    Args([NoArgs EXCEPT !.session_id = S(<<"s">>), !.type = S(Fact)]),
    Args([NoArgs EXCEPT !.type = S(Other)]),
    Args([NoArgs EXCEPT !.limit = N(0)]),
    Args([NoArgs EXCEPT !.limit = N(1)]),
    Args([NoArgs EXCEPT !.limit = N(-1)]) }

BadRecallArgs ==
  { Args([NoArgs EXCEPT !.limit = S(<<"1">>)]) }

EraseArgs ==
  \* by id, alone and with filters and confirm beside it
  { Args([NoArgs EXCEPT !.id = S(id)]) :
      id \in {uuidv4(1), uuidv4(2), NoSuchId, <<>>} }
  \cup
  { Args([NoArgs EXCEPT !.id = S(uuidv4(2)), !.query = S(<<"a">>)]),
    Args([NoArgs EXCEPT !.id = S(NoSuchId), !.query = S(<<"a">>),
                        !.confirm = B(TRUE)]),
    Args([NoArgs EXCEPT !.id = S(<<>>), !.confirm = B(TRUE)]),
    Args([NoArgs EXCEPT !.id = S(uuidv4(1)), !.tags = A(<< <<"z">>, <<"q">> >>),
                        !.session_id = S(<<"s">>), !.confirm = B(TRUE)]),
    Args([NoArgs EXCEPT !.id = S(uuidv4(1)), !.query = S(<<"x">>),
                        !.confirm = B(FALSE)]) }
  \cup
  \* in bulk
  { Args([NoArgs EXCEPT !.confirm = c]) : c \in {U, B(TRUE)} }
  \cup
  { Args([NoArgs EXCEPT !.query = S(<<"a">>), !.confirm = c]) :
      c \in {B(FALSE), B(TRUE)} }
  \cup
  { Args([NoArgs EXCEPT !.tags = A(<< <<"z">>, <<"q">> >>), !.confirm = c]) :
      c \in {U, B(TRUE)} }
  \cup
  { Args([NoArgs EXCEPT !.session_id = S(<<"s">>), !.confirm = c]) :
      c \in {U, B(TRUE)} }
  \cup
  { Args([NoArgs EXCEPT !.session_id = S(<<>>), !.tags = A(<<>>),
                        !.confirm = B(TRUE)]) }

BadEraseArgs ==
  { Null, Args([NoArgs EXCEPT !.confirm = S(<<"y">>)]) }

----------------------------------------------------------------------------
(* The server. *)

Slots == 1..MaxFlight
Idle == [stage |-> "idle"]

NoRequest == [name |-> "none", arguments |-> Null]
NoResponse == [kind |-> "none"]

Init ==
  /\ file = Missing
  /\ now = 0
  /\ uuids = 0
  /\ given = {}
  /\ req = NoRequest
  /\ resp = NoResponse
  /\ calls = [s \in Slots |-> Idle]

\* the arguments pass the tool's validator
validArguments(request) ==
  CASE request.name = "reflect" -> isValidReflectArgs(request.arguments)
    [] request.name = "recall" -> isValidRecallArgs(request.arguments)
    [] request.name = "modify" -> isValidModifyArgs(request.arguments)
    [] request.name = "erase" -> isValidEraseArgs(request.arguments)
    [] OTHER -> FALSE

\* does the call reach uuidv4() (line 383)?
TakesUuid(request) == request.name = "reflect" /\ validArguments(request)

\* the model offers a reflect only while the bounds leave room for it
Room(request, f) ==
  TakesUuid(request) =>
    /\ uuids < MaxUuid
    /\ Len(loadMemories(f, now).memories) < MaxMem

\* the ids given so far, with the one a response reports as stored
Given(response) ==
  IF response.kind = "stored" THEN given \cup {response.memory.id} ELSE given

\* A tool call of a client that sends a call only when it has read the
\* response to the one before, handled from its arrival to its response:
\* load, handler, save.
Serve(request) ==
  LET o == CallTool(request, file, now, uuids + 1)
  IN /\ resp = NoResponse
     /\ \A s \in Slots : calls[s] = Idle
     /\ Room(request, file)
     /\ file' = IF o.save THEN saveMemories(o.storage, now) ELSE file
     /\ uuids' = IF TakesUuid(request) THEN uuids + 1 ELSE uuids
     /\ given' = Given(o.response)
     /\ req' = request
     /\ resp' = o.response
     /\ UNCHANGED <<now, calls>>

Reflect ==
  \E a \in ReflectArgs \cup BadReflectArgs :
    Serve([name |-> "reflect", arguments |-> a])

Recall ==
  \E a \in RecallArgs \cup BadRecallArgs :
    Serve([name |-> "recall", arguments |-> a])

Modify ==
  \E a \in ModifyArgs \cup BadModifyArgs :
    Serve([name |-> "modify", arguments |-> a])

Erase ==
  \E a \in EraseArgs \cup BadEraseArgs :
    Serve([name |-> "erase", arguments |-> a])

UnknownTool == Serve([name |-> "forget", arguments |-> Args(NoArgs)])

\* a millisecond passes
Tick ==
  /\ now < MaxClock
  /\ now' = now + 1
  /\ UNCHANGED <<file, uuids, given, req, resp, calls>>

\* the client reads the response
Receive ==
  /\ resp # NoResponse
  /\ req' = NoRequest
  /\ resp' = NoResponse
  /\ UNCHANGED <<file, now, uuids, given, calls>>

Next == Reflect \/ Recall \/ Modify \/ Erase \/ UnknownTool \/ Receive \/ Tick

Spec == Init /\ [][Next]_vars

----------------------------------------------------------------------------
(* The same server when the client does not wait for a response before it  *)
(* sends the next call.  Every handler is an async function: it gives up   *)
(* control at `await this.loadMemories()` and at `await                    *)
(* this.saveMemories(storage)`, and whatever is ready runs in between.     *)

AsyncRequests ==
  { [name |-> "reflect", arguments |-> Args([NoArgs EXCEPT !.content = S(<<"A", "b">>)])],
    [name |-> "modify",
     arguments |-> Args([NoArgs EXCEPT !.id = S(uuidv4(1)), !.content = S(<<>>)])],
    [name |-> "erase", arguments |-> Args([NoArgs EXCEPT !.id = S(uuidv4(1))])],
    [name |-> "recall", arguments |-> Args(NoArgs)],
    [name |-> "recall", arguments |-> Args([NoArgs EXCEPT !.limit = S(<<"1">>)])] }

\* The call arrives: the validator runs, and readFile is issued.
Arrive(s, request) ==
  /\ calls[s] = Idle
  /\ IF validArguments(request)
     THEN /\ calls' = [calls EXCEPT ![s] = [stage |-> "reading", request |-> request]]
          /\ UNCHANGED <<req, resp>>
     ELSE /\ req' = request
          /\ resp' = CallTool(request, file, now, uuids + 1).response
          /\ UNCHANGED calls
  /\ UNCHANGED <<file, now, uuids, given>>

\* readFile completes: the handler runs up to its return or to the point
\* where saveMemories has stamped the storage and issued writeFile.
Loaded(s) ==
  /\ calls[s].stage = "reading"
  /\ Room(calls[s].request, file)
  /\ LET request == calls[s].request
         o == CallTool(request, file, now, uuids + 1)
     IN /\ uuids' = IF TakesUuid(request) THEN uuids + 1 ELSE uuids
        /\ IF o.save
           THEN /\ calls' = [calls EXCEPT ![s] =
                               [stage |-> "writing", request |-> request,
                                writes |-> saveMemories(o.storage, now),
                                response |-> o.response]]
                /\ UNCHANGED <<req, resp, given>>
           ELSE /\ calls' = [calls EXCEPT ![s] = Idle]
                /\ req' = request
                /\ resp' = o.response
                /\ UNCHANGED given
  /\ UNCHANGED <<file, now>>

\* writeFile completes: the document is replaced and the call returns.
Saved(s) ==
  /\ calls[s].stage = "writing"
  /\ file' = calls[s].writes
  /\ req' = calls[s].request
  /\ resp' = calls[s].response
  /\ given' = Given(calls[s].response)
  /\ calls' = [calls EXCEPT ![s] = Idle]
  /\ UNCHANGED <<now, uuids>>

ArriveAny == \E s \in Slots, request \in AsyncRequests : Arrive(s, request)
LoadedAny == \E s \in Slots : Loaded(s)
SavedAny == \E s \in Slots : Saved(s)

NextAsync == ArriveAny \/ LoadedAny \/ SavedAny \/ Tick

SpecAsync == Init /\ [][NextAsync]_vars

----------------------------------------------------------------------------
(* The server under a client that only stores: no optional field of        *)
(* reflect supplied, each one alone, each two together, all of them, and   *)
(* all of them with their empty or default values.                         *)

ReflectFields == {"tags", "context", "session_id", "importance", "type"}

\* a value of the field that is not its default
SuppliedValue(field) ==
  CASE field = "tags" -> A(<< <<"X">> >>)
    [] field = "context" -> S(<<"A">>)
    [] field = "session_id" -> S(<<"s">>)
    [] field = "importance" -> S(High)
    [] field = "type" -> S(Fact)

ReflectArgsWide ==
  { Args([k \in DOMAIN NoArgs |->
            IF k = "content" THEN S(<<"A", "b">>)
            ELSE IF k \in supplied THEN SuppliedValue(k) ELSE U]) :
      supplied \in {x \in SUBSET ReflectFields : Cardinality(x) \in {0, 1, 2, 5}} }
  \cup
  { Args([NoArgs EXCEPT !.content = S(<<>>)]),
    Args([NoArgs EXCEPT !.content = S(<<>>), !.tags = A(<<>>),
                        !.context = S(<<>>), !.session_id = S(<<>>),
                        !.importance = S(Medium), !.type = S(Other)]) }

ReflectWide ==
  \E a \in ReflectArgsWide : Serve([name |-> "reflect", arguments |-> a])

NextReflect == ReflectWide \/ Receive \/ Tick

SpecReflect == Init /\ [][NextReflect]_vars

----------------------------------------------------------------------------
(* The server on a disk that can fail.  At start memories.json is missing  *)
(* or holds something JSON.parse rejects.  fs.writeFile opens the file     *)
(* with flag 'w', which truncates it, and then writes: when it rejects,    *)
(* either the open failed and the file is what it was, or a write failed   *)
(* and the file holds a cut-off text, which JSON.parse rejects.  The error *)
(* is not an McpError, so the catch of the request handler turns it into a *)
(* response with isError.                                                  *)

FaultRequests ==
  { [name |-> "reflect", arguments |-> Args([NoArgs EXCEPT !.content = S(<<"A", "b">>)])],
    [name |-> "reflect",
     arguments |-> Args([NoArgs EXCEPT !.content = S(<<"b">>),
                                       !.tags = A(<< <<"X">>, <<"z">> >>),
                                       !.session_id = S(<<"s">>)])],
    [name |-> "reflect", arguments |-> Args([NoArgs EXCEPT !.tags = A(<<>>)])],
    [name |-> "recall", arguments |-> Args(NoArgs)],
    [name |-> "recall", arguments |-> Args([NoArgs EXCEPT !.query = S(<<"b">>)])],
    [name |-> "modify",
     arguments |-> Args([NoArgs EXCEPT !.id = S(uuidv4(1)), !.content = S(<<>>)])],
    [name |-> "modify",
     arguments |-> Args([NoArgs EXCEPT !.id = S(NoSuchId), !.type = S(Fact)])],
    [name |-> "erase", arguments |-> Args([NoArgs EXCEPT !.id = S(uuidv4(1))])],
    [name |-> "erase",
     arguments |-> Args([NoArgs EXCEPT !.id = S(NoSuchId), !.confirm = B(TRUE)])],
    [name |-> "erase", arguments |-> Args([NoArgs EXCEPT !.id = S(<<>>)])],
    [name |-> "erase", arguments |-> Args([NoArgs EXCEPT !.tags = A(<< <<"z">> >>)])],
    [name |-> "erase", arguments |-> Args([NoArgs EXCEPT !.confirm = B(TRUE)])] }

\* the response of the catch for an error that is not an McpError
GenericError == [kind |-> "Error", isError |-> TRUE]

\* what a rejected writeFile can leave on disk
writeFileRejected(f) == {f, Corrupt}

InitFaults ==
  /\ file \in {Missing, Corrupt}
  /\ now = 0
  /\ uuids = 0
  /\ given = {}
  /\ req = NoRequest
  /\ resp = NoResponse
  /\ calls = [s \in Slots |-> Idle]

\* A tool call, start to end, whose writeFile rejects.
ServeSaveFails(request) ==
  LET o == CallTool(request, file, now, uuids + 1)
  IN /\ resp = NoResponse
     /\ \A s \in Slots : calls[s] = Idle
     /\ Room(request, file)
     /\ o.save
     /\ file' \in writeFileRejected(file)
     /\ uuids' = IF TakesUuid(request) THEN uuids + 1 ELSE uuids
     /\ req' = request
     /\ resp' = GenericError
     /\ UNCHANGED <<now, given, calls>>

ServeAny == \E request \in FaultRequests : Serve(request)
SaveFailsAny == \E request \in FaultRequests : ServeSaveFails(request)

NextFaults == ServeAny \/ SaveFailsAny \/ Receive \/ Tick

SpecFaults == InitFaults /\ [][NextFaults]_vars

----------------------------------------------------------------------------
(* What the claims speak of. *)

\* the persisted collection
Stored(f) == loadMemories(f, 0).memories

Range(seq) == {seq[i] : i \in 1..Len(seq)}

\* this step handled a call of the tool and put its response on the wire
Served(name) == resp = NoResponse /\ resp' # NoResponse /\ req'.name = name

\* the not-found outcome of modify and of erase by id
NotFound(response) ==
  response.kind = "McpError" /\ response.message = "Memory with ID not found"

\* the error kind with which a tool rejects malformed arguments
RejectionCode(name) ==
  CallTool([name |-> name, arguments |-> Null], Missing, 0, 1).response.code

ToolNames == {"reflect", "recall", "modify", "erase"}

\* this step handled a call and put its response on the wire
Answered == resp = NoResponse /\ resp' # NoResponse

\* a readable document with no record in it
EmptyDocument(clock) ==
  saveMemories([memories |-> <<>>, version |-> Version, last_updated |-> clock],
               clock)

MinLimit == 1
MaxLimit == 100

----------------------------------------------------------------------------
C2_EraseUnknownId ==
  [][ ( /\ Served("erase")
        /\ validArguments(req')
        /\ IsString(req'.arguments.o.id)
        /\ \A m \in Range(Stored(file)) : m.id # req'.arguments.o.id.s )
      => (NotFound(resp') /\ file' = file) ]_vars

(* C3: a bulk erase without confirm leaves the file as it was, and the     *)
(* count it reports is the number of records that the same erase with      *)
(* confirm=true, made next, removes and reports.                           *)
C3_PreviewCount ==
  [][ (Served("erase") /\ resp'.kind = "preview") =>
        LET confirmed == [req' EXCEPT !.arguments.o.confirm = B(TRUE)]
            o == CallTool(confirmed, file', now', uuids' + 1)
        IN /\ file' = file
           /\ resp'.count = Len(resp'.memories)
           /\ o.save
           /\ o.response.kind = "bulk_deleted"
           /\ o.response.count = resp'.count
           /\ Len(Stored(file')) - Len(Stored(saveMemories(o.storage, now')))
                = resp'.count ]_vars

\* a preview, with a filter, that announced the deletion of both records of
\* the collection and deleted none
C3_Witness ==
  /\ req.name = "erase" /\ resp.kind = "preview"
  /\ req.arguments.o.confirm = U
  /\ req.arguments.o.tags # U
  /\ resp.count = 2
  /\ Len(Stored(file)) = 2

(* C4: what recall selects is the set of stored records that contain the   *)
(* query (when one is supplied) without regard to case in content, context *)
(* or a tag, and that satisfy every supplied filter, empty strings and     *)
(* empty tag lists included.  (Read off a recall with the default limit,   *)
(* which cuts nothing here.)                                               *)
C4_ClaimedMatch(m, a) ==
  /\ a.query # U => matchesQuery(m, toLowerCase(a.query.s))
  /\ a.tags # U => \E i \in 1..Len(a.tags.a) : arrayIncludes(m.tags, a.tags.a[i])
  /\ a.session_id # U => m.session_id = a.session_id
  /\ a.importance # U => m.importance = a.importance.s
  /\ a.type # U => m.type = a.type.s

C4_RecallSelection ==
  (req.name = "recall" /\ resp.kind = "recalled" /\ req.arguments.o.limit = U
     /\ Len(Stored(file)) <= DefaultLimit)
  => Range(resp.memories) =
       {m \in Range(Stored(file)) : C4_ClaimedMatch(m, req.arguments.o)}

(* C5: recall returns its matches most recent first, cut to limit, where   *)
(* limit is 10 when absent and otherwise held within 1..100: never more    *)
(* than 100 records and never more than max(limit, 1).                     *)
C5_Matches(f, a) ==
  Len(handleRecall(Args([a EXCEPT !.limit = N(Len(Stored(f)) + 1)]), f, 0)
        .response.memories)

C5_RecallLimit ==
  (req.name = "recall" /\ resp.kind = "recalled") =>
    LET a == req.arguments.o
        result == resp.memories
        held == IF a.limit = U THEN DefaultLimit
                ELSE IF a.limit.n < MinLimit THEN MinLimit
                ELSE IF a.limit.n > MaxLimit THEN MaxLimit
                ELSE a.limit.n
        matches == C5_Matches(file, a)
    IN /\ \A i \in 1..(Len(result) - 1) :
            result[i].timestamp >= result[i + 1].timestamp
       /\ Len(result) = IF held < matches THEN held ELSE matches
       /\ Len(result) <= MaxLimit
       /\ a.limit # U =>
            Len(result) <= (IF a.limit.n > 1 THEN a.limit.n ELSE 1)

(* C6, as claimed: a recall with no arguments made right after a reflect   *)
(* that succeeded has the new record as its first result, whatever the     *)
(* store holds.                                                            *)
C6_RecallAll(f) ==
  handleRecall(Args(NoArgs), f, now).response.memories

C6_NewRecordFirst ==
  (req.name = "reflect" /\ resp.kind = "stored") =>
    /\ Len(C6_RecallAll(file)) >= 1
    /\ C6_RecallAll(file)[1] = resp.memory

(* C6, amended: that recall returns the stored records in non-increasing   *)
(* timestamp order, cut to the first 10; the new record stands right       *)
(* behind the k stored records whose timestamp is not earlier than its     *)
(* own, so it is the first result when k = 0 and among the results when    *)
(* k < 10.                                                                 *)
C6_NewRecordPlace ==
  (req.name = "reflect" /\ resp.kind = "stored") =>
    LET new == resp.memory
        all == Stored(file)
        k == Cardinality({i \in 1..Len(all) :
               all[i].id # new.id /\ all[i].timestamp >= new.timestamp})
        result == C6_RecallAll(file)
    IN /\ Len(result) = IF Len(all) < DefaultLimit THEN Len(all) ELSE DefaultLimit
       /\ Range(result) \subseteq Range(all)
       /\ \A i \in 1..(Len(result) - 1) :
            result[i].timestamp >= result[i + 1].timestamp
       /\ IF k < DefaultLimit
          THEN result[k + 1] = new
          ELSE new \notin Range(result)

\* a reflect into a store that held a record created a millisecond earlier:
\* the recall lists the new record first
C6_Witness ==
  /\ req.name = "reflect" /\ resp.kind = "stored"
  /\ Len(Stored(file)) = 2
  /\ Stored(file)[1].timestamp < resp.memory.timestamp
  /\ C6_RecallAll(file) = <<Stored(file)[2], Stored(file)[1]>>

(* C7: calls do not overlap on the store, so the save that ends a reflect, *)
(* a modify or an erase by id never takes back what other completed calls  *)
(* did: every record on file that the call is not about is still on file,  *)
(* unchanged, after the save.                                              *)
C7_Target(request) ==
  IF request.name = "reflect" THEN U ELSE request.arguments.o.id

C7_NoLostUpdate ==
  [][ \A s \in Slots :
        (calls[s].stage = "writing" /\ calls'[s] = Idle) =>
          \A m \in Range(Stored(file)) :
            S(m.id) # C7_Target(calls[s].request) => m \in Range(Stored(file')) ]_vars

(* C8: no two records of the collection have the same id, and a record is  *)
(* never created with an id that a record was created with before, deleted *)
(* or not.                                                                 *)
C8_UniqueIds ==
  [][ LET after == Stored(file')
      IN /\ \A i, j \in 1..Len(after) : after[i].id = after[j].id => i = j
         /\ \A i \in 1..Len(after) : after[i].id \in given'
         /\ (Served("reflect") /\ resp'.kind = "stored") =>
              /\ resp'.memory.id \notin given
              /\ resp'.memory.id \in given' ]_vars

\* a record created after another one was deleted, beside a third
C8_Witness ==
  /\ req.name = "reflect" /\ resp.kind = "stored"
  /\ Cardinality(given) = 3
  /\ Len(Stored(file)) = 2

(* C9: a bulk erase with confirm=true removes exactly the records that a   *)
(* recall with the same query, tags and session_id (and no importance,     *)
(* type or limit) selects, leaves the others as they were and in their     *)
(* order, and reports the number removed; with no query, tags or           *)
(* session_id it removes every record.                                     *)
C9_RecallSet(f, a) ==
  Range(handleRecall(
          Args([NoArgs EXCEPT !.query = a.query, !.tags = a.tags,
                              !.session_id = a.session_id,
                              !.limit = N(Len(Stored(f)) + 1)]),
          f, 0).response.memories)

C9_BulkErase ==
  [][ (Served("erase") /\ resp'.kind = "bulk_deleted") =>
        LET a == req'.arguments.o
            before == Stored(file)
            Survives(m) == m \notin C9_RecallSet(file, a)
        IN /\ Stored(file') = SelectSeq(before, Survives)
           /\ resp'.count = Len(before) - Len(Stored(file'))
           /\ (a.query = U /\ a.tags = U /\ a.session_id = U)
                => Stored(file') = <<>> ]_vars

\* a bulk erase on a query that removed one record and kept the other
C9_Witness ==
  /\ req.name = "erase" /\ resp.kind = "bulk_deleted"
  /\ req.arguments.o.query # U
  /\ resp.count = 1
  /\ Len(Stored(file)) = 1

(* C10: the not-found outcome of modify and of erase by id is never        *)
(* reported with the error kind of a rejection of malformed arguments.     *)
C10_NotFoundDistinct ==
  NotFound(resp) => \A name \in ToolNames : resp.code # RejectionCode(name)

(* C11: an erase with the id of a stored record removes that record and    *)
(* nothing else: the collection afterwards is the one before without the   *)
(* record of that id, the other records unchanged and in their order, and  *)
(* it is one record shorter; the call reports the deletion.                *)
C11_EraseOne ==
  [][ ( /\ Served("erase")
        /\ validArguments(req')
        /\ IsString(req'.arguments.o.id)
        /\ \E m \in Range(Stored(file)) : m.id = req'.arguments.o.id.s )
      => LET id == req'.arguments.o.id.s
             before == Stored(file)
             after == Stored(file')
             k == CHOOSE i \in 1..Len(before) : before[i].id = id
         IN /\ resp'.kind = "deleted" /\ resp'.id = id
            /\ Len(after) = Len(before) - 1
            /\ after = SubSeq(before, 1, k - 1) \o SubSeq(before, k + 1, Len(before))
            /\ \A m \in Range(after) : m.id # id ]_vars

\* an erase by id that took the first record of two and left the second
C11_Witness ==
  /\ req.name = "erase" /\ resp.kind = "deleted"
  /\ resp.id = uuidv4(1)
  /\ Len(Stored(file)) = 1
  /\ Stored(file)[1].id = uuidv4(2)

(* C12: a modify whose id is the id of no stored record fails with the    *)
(* not-found error and saves nothing: the file (records and last_updated)  *)
(* is after the call what it was before, whatever fields the call carries.  *)
C12_ModifyUnknownId ==
  [][ ( /\ Served("modify")
        /\ validArguments(req')
        /\ \A m \in Range(Stored(file)) : m.id # req'.arguments.o.id.s )
      => (NotFound(resp') /\ file' = file) ]_vars

\* a modify that supplied every field for an id no record of two has and
\* was answered not-found, a millisecond after the last save
C12_Witness ==
  /\ req.name = "modify" /\ NotFound(resp)
  /\ req.arguments.o.content # U /\ req.arguments.o.tags # U
  /\ req.arguments.o.type # U
  /\ Len(Stored(file)) = 2
  /\ file.text.last_updated < now

(* C13: a reflect that succeeds appends one record at the end of the       *)
(* collection and changes no other: the record has the supplied content,   *)
(* each optional field as supplied, and for a field not supplied tags=[],  *)
(* context="", importance=medium, type=other, session_id absent; the       *)
(* collection is one record longer and the response reports the record.    *)
C13_ReflectAppends ==
  [][ (Served("reflect") /\ resp'.kind = "stored") =>
        LET a == req'.arguments.o
            before == Stored(file)
            after == Stored(file')
            new == after[Len(after)]
        IN /\ Len(after) = Len(before) + 1
           /\ SubSeq(after, 1, Len(before)) = before
           /\ new = resp'.memory
           /\ new.content = a.content.s
           /\ new.tags = IF a.tags = U THEN <<>> ELSE a.tags.a
           /\ new.context = IF a.context = U THEN <<>> ELSE a.context.s
           /\ new.importance = IF a.importance = U THEN Medium ELSE a.importance.s
           /\ new.type = IF a.type = U THEN Other ELSE a.type.s
           /\ new.session_id = a.session_id
           /\ new.timestamp = now ]_vars

\* a reflect with only content, tags and type supplied, appended behind a
\* record that was there: the other fields took their defaults
C13_Witness ==
  /\ req.name = "reflect" /\ resp.kind = "stored"
  /\ req.arguments.o.tags # U /\ req.arguments.o.type # U
  /\ req.arguments.o.context = U /\ req.arguments.o.session_id = U
  /\ req.arguments.o.importance = U
  /\ Len(Stored(file)) = 2
  /\ Stored(file)[2] = resp.memory
  /\ resp.memory.importance = Medium /\ resp.memory.context = <<>>
  /\ resp.memory.session_id = U

(* C14: on a file that is missing or that JSON.parse rejects, a call does  *)
(* what it does on a readable document with no record, and no response is  *)
(* an error of the load: recall returns no record, modify and erase with   *)
(* an id fail not-found, all three leave the file as it is, and a reflect  *)
(* that succeeds leaves a readable document whose collection is the one    *)
(* new record.                                                             *)
C14_LoadFailureIsEmpty ==
  [][ (Answered /\ file.state # "json") =>
        LET name == req'.name
            args == req'.arguments
            valid == validArguments(req')
            onEmpty == CallTool(req', EmptyDocument(now), now, uuids + 1)
        IN /\ resp' # GenericError => resp' = onEmpty.response
           /\ resp' = GenericError => onEmpty.save
           /\ (name = "recall" /\ valid) =>
                (resp'.kind = "recalled" /\ resp'.memories = <<>> /\ file' = file)
           /\ (name = "modify" /\ valid) => (NotFound(resp') /\ file' = file)
           /\ (name = "erase" /\ valid /\ hasId(args)) =>
                (NotFound(resp') /\ file' = file)
           /\ (name = "reflect" /\ resp'.kind = "stored") =>
                (file'.state = "json" /\ Stored(file') = <<resp'.memory>>) ]_vars

\* a modify of the first id the server gave, answered not-found while the
\* file is one that JSON.parse rejects
C14_Witness ==
  /\ req.name = "modify" /\ NotFound(resp)
  /\ req.arguments.o.id = S(uuidv4(1))
  /\ file = Corrupt
  /\ uuids >= 1

(* C15: a reflect, modify or erase whose save fails does not report        *)
(* success: it is answered with the generic error response (isError), the  *)
(* server is ready for the next call, and what a later call loads is the   *)
(* document the call itself had loaded, without its mutation.              *)
C15_FailedSaveKeepsDocument ==
  [][ (Answered /\ resp' = GenericError) =>
        /\ req'.name \in {"reflect", "modify", "erase"}
        /\ CallTool(req', file, now, uuids + 1).save
        /\ resp'.isError
        /\ \A s \in Slots : calls'[s] = Idle
        /\ loadMemories(file', now') = loadMemories(file, now) ]_vars

(* C16: recall saves nothing: whatever its arguments, valid or not, the    *)
(* file (the records, their order and last_updated) is after the call what *)
(* it was before, and a missing file is not created.                       *)
C16_RecallReadOnly ==
  [][ Served("recall") => file' = file ]_vars

\* a recall with limit 1 on two records stored oldest first: the result is
\* the newer one alone, the file still holds both, oldest first
C16_Witness ==
  /\ req.name = "recall" /\ resp.kind = "recalled"
  /\ req.arguments.o.limit = N(1)
  /\ Len(Stored(file)) = 2
  /\ Stored(file)[1].timestamp < Stored(file)[2].timestamp
  /\ resp.memories = <<Stored(file)[2]>>

(* C17: an erase with a non-empty id and with query, tags, session_id or   *)
(* confirm beside it does what the erase with that id alone does: it fails *)
(* not-found and leaves the file as it is, or it removes the record of     *)
(* that id and no other, a record that matches the filters included, and   *)
(* it does so for confirm true, false and absent.                          *)
C17_IdDecidesAlone ==
  [][ ( /\ Served("erase")
        /\ validArguments(req')
        /\ IsString(req'.arguments.o.id)
        /\ req'.arguments.o.id.s # <<>>
        /\ \E k \in {"query", "tags", "session_id", "confirm"} :
              req'.arguments.o[k] # U )
      => LET id == req'.arguments.o.id
             before == Stored(file)
             after == Stored(file')
             alone == CallTool([name |-> "erase",
                                arguments |-> Args([NoArgs EXCEPT !.id = id])],
                               file, now, uuids + 1)
         IN /\ resp' = alone.response
            /\ file' = IF alone.save THEN saveMemories(alone.storage, now) ELSE file
            /\ \/ NotFound(resp') /\ file' = file
               \/ /\ resp'.kind = "deleted"
                  /\ Len(after) = Len(before) - 1
                  /\ \A m \in Range(before) : m.id # id.s => m \in Range(after) ]_vars

\* an erase by id with confirm=true and filters that match only the other
\* record: the record of the id is gone, the one the filters match is there
C17_Witness ==
  /\ req.name = "erase" /\ resp.kind = "deleted"
  /\ req.arguments.o.confirm = B(TRUE)
  /\ req.arguments.o.tags # U /\ req.arguments.o.session_id # U
  /\ Len(Stored(file)) = 1
  /\ passesFilters(Stored(file)[1],
                   [tags |-> req.arguments.o.tags,
                    session_id |-> req.arguments.o.session_id,
                    importance |-> U, type |-> U])
  /\ given = {uuidv4(1), uuidv4(2)}

====
